---------------------------- MODULE Spec2Model ----------------------------
(***************************************************************************)
(* k-template: the user store (UserRepository over one SQL table), the     *)
(* identity resolver UserService::find_or_create, the password check       *)
(* AuthBackend::authenticate and the login handler with its error mapping. *)
(*                                                                         *)
(* Strings are sequences of one-character strings, so that trimming,       *)
(* lower-casing and splitting are computed and not assumed.  Option<T> is  *)
(* a sequence of length 0 (None) or 1 (Some).  Result<T, E> is a record    *)
(* [ok, val, err].                                                         *)
(***************************************************************************)
EXTENDS Naturals, Sequences, FiniteSets, TLC

\* Number of UUIDs Uuid::new_v4() hands out in one run of the model.
MaxUuid == 3

-----------------------------------------------------------------------------
(* Option and Result *)

None == << >>

Some(x) == << x >>

IsSome(o) == Len(o) = 1

Unwrap(o) == o[1]

Ok(v) == [ok |-> TRUE, val |-> v, err |-> None]

Err(e) == [ok |-> FALSE, val |-> None, err |-> Some(e)]

-----------------------------------------------------------------------------
(* str: trim, to_lowercase, split, contains *)

IsWhitespace(c) == c \in {" ", "\t", "\n"}

ToLowerChar(c) ==
    CASE c = "A" -> "a"
      [] c = "B" -> "b"
      [] c = "C" -> "c"
      [] OTHER -> c

to_lowercase(s) == [i \in 1..Len(s) |-> ToLowerChar(s[i])]

RECURSIVE trim_start(_)
trim_start(s) ==
    IF s # << >> /\ IsWhitespace(Head(s)) THEN trim_start(Tail(s)) ELSE s

RECURSIVE trim_end(_)
trim_end(s) ==
    IF s # << >> /\ IsWhitespace(s[Len(s)])
    THEN trim_end(SubSeq(s, 1, Len(s) - 1))
    ELSE s

trim(s) == trim_end(trim_start(s))

contains(s, c) == \E i \in 1..Len(s) : s[i] = c

\* split that cuts at the first occurrence of c only (str::split_once).
split_AtFirstOnly(s, c) ==
    IF ~contains(s, c)
    THEN << s >>
    ELSE LET i == CHOOSE k \in 1..Len(s) :
                      s[k] = c /\ \A j \in 1..(k - 1) : s[j] # c
         IN  << SubSeq(s, 1, i - 1), SubSeq(s, i + 1, Len(s)) >>

\* str::split(c): the pieces between the occurrences of c, empty pieces kept.
RECURSIVE split(_, _)
split(s, c) ==
    IF ~contains(s, c)
    THEN << s >>
    ELSE LET i == CHOOSE k \in 1..Len(s) :
                      s[k] = c /\ \A j \in 1..(k - 1) : s[j] # c
         IN  << SubSeq(s, 1, i - 1) >> \o split(SubSeq(s, i + 1, Len(s)), c)

-----------------------------------------------------------------------------
(* value_objects.rs: Email *)

InvalidEmail(v) == [kind |-> "InvalidEmail", msg |-> v]

\* Email::new that validates the trimmed, lower-cased string and keeps the
\* string it was given.
EmailNew_KeepsInput(value) ==
    LET trimmed == to_lowercase(trim(value))
        parts   == split(trimmed, "@")
    IN  IF Len(parts) # 2 \/ parts[1] = << >> \/ parts[2] = << >>
        THEN Err(InvalidEmail(value))
        ELSE IF ~contains(parts[2], ".")
             THEN Err(InvalidEmail(value))
             ELSE Ok(value)

\* Email::new
EmailNew(value) ==
    LET trimmed == to_lowercase(trim(value))
        parts   == split(trimmed, "@")
    IN  IF Len(parts) # 2 \/ parts[1] = << >> \/ parts[2] = << >>
        THEN Err(InvalidEmail(value))
        ELSE IF ~contains(parts[2], ".")
             THEN Err(InvalidEmail(value))
             ELSE Ok(trimmed)

-----------------------------------------------------------------------------
(* value_objects.rs: Password *)

\* The number of bytes of the UTF-8 encoding of a character: "U+00E9"
\* stands for the one character e-acute, which takes two.
Utf8Len(c) == IF c = "U+00E9" THEN 2 ELSE 1

\* str::len: the length of a string in bytes.
RECURSIVE str_len(_)
str_len(s) == IF s = << >> THEN 0 ELSE Utf8Len(Head(s)) + str_len(Tail(s))

MIN_PASSWORD_LENGTH == 6

PasswordTooShort(min, actual) ==
    [kind |-> "PasswordTooShort", min |-> min, actual |-> actual]

\* Password::new
PasswordNew(value) ==
    IF str_len(value) < MIN_PASSWORD_LENGTH
    THEN Err(PasswordTooShort(MIN_PASSWORD_LENGTH, str_len(value)))
    ELSE Ok(value)

\* The Debug text #[derive(Debug)] would give a Password.
PasswordDebug_Derived(password) ==
    << "P", "a", "s", "s", "w", "o", "r", "d", "(", "\"" >> \o password
        \o << "\"", ")" >>

\* impl fmt::Debug for Password: write!(f, "Password(***)")
PasswordDebug(password) ==
    << "P", "a", "s", "s", "w", "o", "r", "d", "(", "*", "*", "*", ")" >>

-----------------------------------------------------------------------------
(* errors.rs: DomainError *)

UserNotFound(id) == [kind |-> "UserNotFound", msg |-> << ToString(id) >>]

UserAlreadyExists(m) == [kind |-> "UserAlreadyExists", msg |-> m]

ValidationError(m) == [kind |-> "ValidationError", msg |-> m]

RepositoryError(m) == [kind |-> "RepositoryError", msg |-> m]

Unauthorized(m) == [kind |-> "Unauthorized", msg |-> m]

InfrastructureError(m) == [kind |-> "InfrastructureError", msg |-> m]

is_conflict(e) == e.kind = "UserAlreadyExists"

\* impl From<ValidationError> for DomainError: the message is the Display text.
FromValidationError(e) ==
    ValidationError(<< "Invalid email format: " >> \o e.msg)

-----------------------------------------------------------------------------
(* Inputs of the model *)

\* Subjects asserted by an identity provider.
Subjects == { << "s", "1" >>, << "s", "2" >> }

\* Email strings as callers supply them: a normalised address, the same
\* address with surrounding whitespace and an upper-case letter, a second
\* address, and a string with no dot in its domain.
EmailInputs ==
    { << "a", "@", "b", ".", "c" >>,
      << " ", "A", "@", "b", ".", "c" >>,
      << "b", "@", "b", ".", "c" >>,
      << "a", "@", "b" >> }

\* Email strings submitted to login.
LoginEmails ==
    { << "a", "@", "b", ".", "c" >>,
      << " ", "A", "@", "b", ".", "c" >>,
      << "b", "@", "b", ".", "c" >> }

\* Plaintext passwords offered at login.
Passwords == { << "p", "w", "1" >>, << "p", "w", "2" >> }

\* Passwords of the local accounts written to the store.
StoredPasswords == { << "p", "w", "1" >> }

\* Values Utc::now() may return (the wall clock is not monotonic).
Times == { 10, 20 }

\* The store operation of a call that fails with an I/O error, if any.
FailPoints == { "none", "find_by_subject", "find_by_email", "save" }

-----------------------------------------------------------------------------
(* entities.rs: User *)

\* User::new that stores the hash of the password "pw1".
UserNew_WithPassword(subject, email, uuid, now) ==
    [id |-> uuid, subject |-> subject, email |-> email,
     password_hash |-> Some(<< "$argon2id$", "p", "w", "1" >>),
     created_at |-> now]

\* User::new
UserNew(subject, email, uuid, now) ==
    [id |-> uuid, subject |-> subject, email |-> email,
     password_hash |-> None, created_at |-> now]

\* User::with_id
UserWithId(id, subject, email, password_hash, created_at) ==
    [id |-> id, subject |-> subject, email |-> email,
     password_hash |-> password_hash, created_at |-> created_at]

\* User::new_local: the subject is "local|" followed by a second fresh UUID.
UserNewLocal(email, password_hash, uuid, uuid2, now) ==
    [id |-> uuid,
     subject |-> << "l", "o", "c", "a", "l", "|", ToString(uuid2) >>,
     email |-> email, password_hash |-> Some(password_hash),
     created_at |-> now]

-----------------------------------------------------------------------------
(* user_repository.rs: the users table and its row conversions *)

\* Uuid::to_string
UuidToString(id) == ToString(id)

\* Uuid::parse_str
UuidParseStr(s) ==
    IF \E u \in 1..(MaxUuid + 1) : ToString(u) = s
    THEN Ok(CHOOSE u \in 1..(MaxUuid + 1) : ToString(u) = s)
    ELSE Err(RepositoryError(<< "Invalid UUID: ", s >>))

\* DateTime::to_rfc3339
to_rfc3339(t) == ToString(t)

\* DateTime::parse_from_rfc3339, with the fallback to the SQLite format
ParseDateTime(s) ==
    IF \E t \in Times : ToString(t) = s
    THEN Ok(CHOOSE t \in Times : ToString(t) = s)
    ELSE Err(RepositoryError(<< "Invalid datetime: ", s >>))

\* The row conversion that does not carry the password hash over.
UserTryFromRow_DropsHash(row) ==
    LET id         == UuidParseStr(row.id)
        created_at == ParseDateTime(row.created_at)
        email      == EmailNew(row.email)
    IN  IF ~id.ok THEN id
        ELSE IF ~created_at.ok THEN created_at
        ELSE IF ~email.ok
             THEN Err(RepositoryError(<< "Invalid email in DB: " >>
                                      \o Unwrap(email.err).msg))
             ELSE Ok(UserWithId(id.val, row.subject, email.val,
                                None, created_at.val))

\* impl TryFrom<UserRow> for User
UserTryFromRow(row) ==
    LET id         == UuidParseStr(row.id)
        created_at == ParseDateTime(row.created_at)
        email      == EmailNew(row.email)
    IN  IF ~id.ok THEN id
        ELSE IF ~created_at.ok THEN created_at
        ELSE IF ~email.ok
             THEN Err(RepositoryError(<< "Invalid email in DB: " >>
                                      \o Unwrap(email.err).msg))
             ELSE Ok(UserWithId(id.val, row.subject, email.val,
                                row.password_hash, created_at.val))

\* row.map(User::try_from).transpose() over the rows fetch_optional may
\* return: no row gives Ok(None); with several matching rows the one
\* returned is not determined by the query.
FetchOptional(rows) ==
    IF rows = {}
    THEN { Ok(None) }
    ELSE { LET u == UserTryFromRow(r) IN IF u.ok THEN Ok(Some(u.val)) ELSE u
           : r \in rows }

\* The text of the sqlx error of a failed query.
IoError == << "pool timed out" >>

UniqueViolation == << "UNIQUE constraint failed" >>

\* SqliteUserRepository::find_by_id
find_by_id(table, id, fail) ==
    IF fail
    THEN { Err(RepositoryError(IoError)) }
    ELSE FetchOptional({ r \in table : r.id = UuidToString(id) })

\* find_by_subject whose query compares the email column.
find_by_subject_EmailColumn(table, subject, fail) ==
    IF fail
    THEN { Err(RepositoryError(<< "pool timed out" >>)) }
    ELSE FetchOptional({ r \in table : r.email = subject })

\* find_by_subject whose query matches no row.
find_by_subject_NoRow(table, subject, fail) ==
    IF fail
    THEN { Err(RepositoryError(IoError)) }
    ELSE FetchOptional({})

\* SqliteUserRepository::find_by_subject
find_by_subject(table, subject, fail) ==
    IF fail
    THEN { Err(RepositoryError(IoError)) }
    ELSE FetchOptional({ r \in table : r.subject = subject })

\* SqliteUserRepository::find_by_email
find_by_email(table, email, fail) ==
    IF fail
    THEN { Err(RepositoryError(IoError)) }
    ELSE FetchOptional({ r \in table : r.email = email })

\* The row save binds to its INSERT.
UserToRow(user) ==
    [id |-> UuidToString(user.id), subject |-> user.subject,
     email |-> user.email, password_hash |-> user.password_hash,
     created_at |-> to_rfc3339(user.created_at)]

\* The schema's UNIQUE constraints on subject and email, when it has them:
\* the row would share its subject or its email with a row of another id.
ViolatesUnique(table, row) ==
    \E r \in table :
        r.id # row.id /\ (r.subject = row.subject \/ r.email = row.email)

\* INSERT ... ON CONFLICT(id) DO NOTHING: a stored row is never updated.
Upsert_DoNothing(table, row) ==
    IF \E r \in table : r.id = row.id THEN table ELSE table \cup { row }

\* INSERT OR REPLACE: the stored row of the id is replaced whole.
Upsert_ReplacesRow(table, row) ==
    { r \in table : r.id # row.id } \cup { row }

\* INSERT ... ON CONFLICT(id) DO UPDATE SET subject, email, password_hash
Upsert(table, row) ==
    IF \E r \in table : r.id = row.id
    THEN { IF r.id = row.id
           THEN [r EXCEPT !.subject = row.subject, !.email = row.email,
                          !.password_hash = row.password_hash]
           ELSE r : r \in table }
    ELSE table \cup { row }

\* SqliteUserRepository::save: every sqlx error becomes a RepositoryError.
save(table, user, fail, unique) ==
    LET row == UserToRow(user)
    IN  IF fail
        THEN [table |-> table, res |-> Err(RepositoryError(IoError))]
        ELSE IF unique /\ ViolatesUnique(table, row)
        THEN [table |-> table, res |-> Err(RepositoryError(UniqueViolation))]
        ELSE [table |-> Upsert(table, row), res |-> Ok(None)]

\* delete whose statement has no WHERE clause.
delete_EveryRow(table, id, fail) ==
    IF fail
    THEN [table |-> table, res |-> Err(RepositoryError(<< "pool timed out" >>))]
    ELSE [table |-> {}, res |-> Ok(None)]

\* SqliteUserRepository::delete
delete(table, id, fail) ==
    IF fail
    THEN [table |-> table, res |-> Err(RepositoryError(IoError))]
    ELSE [table |-> { r \in table : r.id # UuidToString(id) },
          res |-> Ok(None)]

-----------------------------------------------------------------------------
(* services.rs: UserService *)

\* One store operation as a call issued it: its name, its key (the subject,
\* the email, or the id of the saved user) and how it ended.
OpLog(name, key, res) == [op |-> name, key |-> key, res |-> res]

FindTag(r) == IF ~r.ok THEN "err" ELSE IF IsSome(r.val) THEN "some" ELSE "none"

SaveTag(r) == IF r.ok THEN "ok" ELSE "err"

\* What a call did: the table it left, what it returned, the store
\* operations it issued in order, and the UUIDs it drew.
Outcome(table, res, ops, uuids) ==
    [table |-> table, res |-> res, ops |-> ops, uuids |-> uuids]

\* Step 2 that rewrites the subject of the user in memory and does not
\* save it.
FocLink_NoSave(table, found, subject, fail, unique) ==
    IF found.subject # subject
    THEN Outcome(table, Ok([found EXCEPT !.subject = subject]), << >>, 0)
    ELSE Outcome(table, Ok(found), << >>, 0)

\* Step 2 that saves the linked user without its password hash.
FocLink_ClearsHash(table, found, subject, fail, unique) ==
    IF found.subject # subject
    THEN LET user == [found EXCEPT !.subject = subject, !.password_hash = None]
             s    == save(table, user, fail = "save", unique)
             log  == << OpLog("save", << UuidToString(user.id) >>,
                              SaveTag(s.res)) >>
         IN  IF ~s.res.ok
             THEN Outcome(s.table, s.res, log, 0)
             ELSE Outcome(s.table, Ok(user), log, 0)
    ELSE Outcome(table, Ok(found), << >>, 0)

\* find_or_create, step 2 with a user found by email: link the subject.
FocLink(table, found, subject, fail, unique) ==
    IF found.subject # subject
    THEN LET user == [found EXCEPT !.subject = subject]
             s    == save(table, user, fail = "save", unique)
             log  == << OpLog("save", << UuidToString(user.id) >>,
                              SaveTag(s.res)) >>
         IN  IF ~s.res.ok
             THEN Outcome(s.table, s.res, log, 0)
             ELSE Outcome(s.table, Ok(user), log, 0)
    ELSE Outcome(table, Ok(found), << >>, 0)

\* Step 3 that looks the email up once more and saves only when no user
\* has it.
FocCreate_ChecksAgain(table, subject, email, fail, unique, uuid, now) ==
    LET e == EmailNew(email)
    IN  IF ~e.ok
        THEN Outcome(table, Err(FromValidationError(Unwrap(e.err))), << >>, 0)
        ELSE IF \E r \in table : r.email = e.val
        THEN Outcome(table, Err(UserAlreadyExists(e.val)), << >>, 0)
        ELSE LET user == UserNew(subject, e.val, uuid, now)
                 s    == save(table, user, fail = "save", unique)
                 log  == << OpLog("save", << UuidToString(user.id) >>,
                                  SaveTag(s.res)) >>
             IN  IF ~s.res.ok
                 THEN Outcome(s.table, s.res, log, 1)
                 ELSE Outcome(s.table, Ok(user), log, 1)

\* Step 3 that builds the user from the email string as given, without
\* validating it.
FocCreate_Unvalidated(table, subject, email, fail, unique, uuid, now) ==
    LET user == UserNew(subject, email, uuid, now)
        s    == save(table, user, fail = "save", unique)
        log  == << OpLog("save", << UuidToString(user.id) >>, SaveTag(s.res)) >>
    IN  IF ~s.res.ok
        THEN Outcome(s.table, s.res, log, 1)
        ELSE Outcome(s.table, Ok(user), log, 1)

\* Step 3 that drops the result of the save.
FocCreate_IgnoresSaveError(table, subject, email, fail, unique, uuid, now) ==
    LET e == EmailNew(email)
    IN  IF ~e.ok
        THEN Outcome(table, Err(FromValidationError(Unwrap(e.err))), << >>, 0)
        ELSE LET user == UserNew(subject, e.val, uuid, now)
                 s    == save(table, user, fail = "save", unique)
                 log  == << OpLog("save", << UuidToString(user.id) >>,
                                  SaveTag(s.res)) >>
             IN  Outcome(s.table, Ok(user), log, 1)

\* find_or_create, step 3: validate the email, build the user, save it.
FocCreate(table, subject, email, fail, unique, uuid, now) ==
    LET e == EmailNew(email)
    IN  IF ~e.ok
        THEN Outcome(table, Err(FromValidationError(Unwrap(e.err))), << >>, 0)
        ELSE LET user == UserNew(subject, e.val, uuid, now)
                 s    == save(table, user, fail = "save", unique)
                 log  == << OpLog("save", << UuidToString(user.id) >>,
                                  SaveTag(s.res)) >>
             IN  IF ~s.res.ok
                 THEN Outcome(s.table, s.res, log, 1)
                 ELSE Outcome(s.table, Ok(user), log, 1)

\* find_or_create, from the email lookup on.
FocByEmail(table, subject, email, fail, unique, uuid, now) ==
    { LET log  == << OpLog("find_by_email", email, FindTag(r)) >>
          rest == IF ~r.ok THEN Outcome(table, r, << >>, 0)
                  ELSE IF IsSome(r.val)
                       THEN FocLink(table, Unwrap(r.val), subject, fail, unique)
                       ELSE FocCreate(table, subject, email, fail, unique,
                                      uuid, now)
      IN  [rest EXCEPT !.ops = log \o rest.ops]
      : r \in find_by_email(table, email, fail = "find_by_email") }

\* find_or_create without its step 1: the email decides.
find_or_create_EmailFirst(table, subject, email, fail, unique, uuid, now) ==
    FocByEmail(table, subject, email, fail, unique, uuid, now)

\* UserService::find_or_create: every outcome the call may have.
find_or_create(table, subject, email, fail, unique, uuid, now) ==
    UNION
    { LET log == << OpLog("find_by_subject", subject, FindTag(r)) >>
      IN  IF ~r.ok THEN { Outcome(table, r, log, 0) }
          ELSE IF IsSome(r.val) THEN { Outcome(table, Ok(Unwrap(r.val)), log, 0) }
          ELSE { [o EXCEPT !.ops = log \o o.ops]
                 : o \in FocByEmail(table, subject, email, fail, unique,
                                    uuid, now) }
      : r \in find_by_subject(table, subject, fail = "find_by_subject") }

\* find_by_id that reports an absent user as a storage failure.
UserService_find_by_id_AbsentAsFailure(table, id, fail) ==
    { IF ~r.ok THEN r
      ELSE IF IsSome(r.val) THEN Ok(Unwrap(r.val))
      ELSE Err(RepositoryError(<< "no rows returned" >>))
      : r \in find_by_id(table, id, fail) }

\* UserService::find_by_id: find_by_id(id).await?.ok_or(UserNotFound(id))
UserService_find_by_id(table, id, fail) ==
    { IF ~r.ok THEN r
      ELSE IF IsSome(r.val) THEN Ok(Unwrap(r.val))
      ELSE Err(UserNotFound(id))
      : r \in find_by_id(table, id, fail) }

-----------------------------------------------------------------------------
(* auth/mod.rs: AuthBackend *)

\* The PHC string password_auth stores for a password.
generate_hash(password) == << "$argon2id$" >> \o password

\* password_auth::verify_password(..).is_ok()
verify_password(password, hash) == hash = generate_hash(password)

AuthError(e) == [kind |-> "AuthError", msg |-> << e.kind >> \o e.msg]

\* authenticate that accepts any password for a user with a hash.
authenticate_NoVerify(table, creds, fail) ==
    { LET log == << OpLog("find_by_email", creds.email, FindTag(r)) >>
      IN  IF ~r.ok
          THEN Outcome(table, Err(AuthError(Unwrap(r.err))), log, 0)
          ELSE IF IsSome(r.val) /\ IsSome(Unwrap(r.val).password_hash)
               THEN Outcome(table, Ok(Some(Unwrap(r.val))), log, 0)
               ELSE Outcome(table, Ok(None), log, 0)
      : r \in find_by_email(table, creds.email, fail) }

\* authenticate that reports a user without a password hash as an error.
authenticate_ErrOnNoHash(table, creds, fail) ==
    { LET log == << OpLog("find_by_email", creds.email, FindTag(r)) >>
      IN  IF ~r.ok
          THEN Outcome(table, Err(AuthError(Unwrap(r.err))), log, 0)
          ELSE IF IsSome(r.val) /\ ~IsSome(Unwrap(r.val).password_hash)
               THEN Outcome(table,
                            Err([kind |-> "AuthError",
                                 msg |-> << "no password set" >>]), log, 0)
          ELSE IF IsSome(r.val)
                  /\ verify_password(creds.password,
                                     Unwrap(Unwrap(r.val).password_hash))
               THEN Outcome(table, Ok(Some(Unwrap(r.val))), log, 0)
               ELSE Outcome(table, Ok(None), log, 0)
      : r \in find_by_email(table, creds.email, fail) }

\* AuthBackend::authenticate: Ok(Some(user)), Ok(None) or Err.
authenticate(table, creds, fail) ==
    { LET log == << OpLog("find_by_email", creds.email, FindTag(r)) >>
      IN  IF ~r.ok
          THEN Outcome(table, Err(AuthError(Unwrap(r.err))), log, 0)
          ELSE IF IsSome(r.val)
                  /\ IsSome(Unwrap(r.val).password_hash)
                  /\ verify_password(creds.password,
                                     Unwrap(Unwrap(r.val).password_hash))
               THEN Outcome(table, Ok(Some(Unwrap(r.val))), log, 0)
               ELSE Outcome(table, Ok(None), log, 0)
      : r \in find_by_email(table, creds.email, fail) }

-----------------------------------------------------------------------------
(* error.rs: ApiError and its response *)

ApiDomain(e) == [variant |-> "Domain", inner |-> e, msg |-> << >>]

ApiValidation(m) == [variant |-> "Validation", inner |-> None, msg |-> m]

ApiInternal(m) == [variant |-> "Internal", inner |-> None, msg |-> m]

ApiForbidden(m) == [variant |-> "Forbidden", inner |-> None, msg |-> m]

ApiUnauthorized(m) == [variant |-> "Unauthorized", inner |-> None, msg |-> m]

\* The Display text of a DomainError.
DomainErrorToString(e) ==
    CASE e.kind = "UserNotFound"      -> << "User not found: " >> \o e.msg
      [] e.kind = "UserAlreadyExists" -> << "User already exists: " >> \o e.msg
      [] e.kind = "ValidationError"   -> << "Validation error: " >> \o e.msg
      [] e.kind = "Unauthorized"      -> << "Unauthorized: " >> \o e.msg
      [] e.kind = "RepositoryError"   -> << "Repository error: " >> \o e.msg
      [] OTHER                        -> << "Infrastructure error: " >> \o e.msg

\* The status mapping with Unauthorized taken for an unauthenticated caller.
DomainStatus_UnauthorizedAs401(e) ==
    CASE e.kind = "UserNotFound"      -> 404
      [] e.kind = "UserAlreadyExists" -> 409
      [] e.kind = "ValidationError"   -> 400
      [] e.kind = "Unauthorized"      -> 401
      [] OTHER                        -> 500

\* into_response: the status of a DomainError.
DomainStatus(e) ==
    CASE e.kind = "UserNotFound"      -> 404
      [] e.kind = "UserAlreadyExists" -> 409
      [] e.kind = "ValidationError"   -> 400
      [] e.kind = "Unauthorized"      -> 403
      [] OTHER                        -> 500

ErrorResponse(status, error, details) ==
    [status |-> status, error |-> error, details |-> details]

\* impl IntoResponse for ApiError
into_response(e) ==
    CASE e.variant = "Domain" ->
           ErrorResponse(DomainStatus(e.inner),
                         DomainErrorToString(e.inner), None)
      [] e.variant = "Validation" ->
           ErrorResponse(400, << "Validation error" >>, Some(e.msg))
      [] e.variant = "Internal" ->
           ErrorResponse(500, << "Internal server error" >>, None)
      [] e.variant = "Forbidden" ->
           ErrorResponse(403, << "Forbidden" >>, Some(e.msg))
      [] OTHER ->
           ErrorResponse(401, << "Unauthorized" >>, Some(e.msg))

\* (StatusCode, Json(UserResponse { id, email, created_at }))
UserResponse(status, user) ==
    [status |-> status, id |-> user.id, email |-> user.email,
     created_at |-> user.created_at]

-----------------------------------------------------------------------------
(* routes/auth.rs: login *)

\* What a handler did: the session's user afterwards, the response, the
\* store operations issued, and what its call to the backend returned.
Handled(sess, response, ops, inner) ==
    [session |-> sess, response |-> response, ops |-> ops, inner |-> inner]

\* login: authenticate, then auth_session.login, then 200 with the summary.
login(table, sess, payload, fail, session_fail) ==
    { IF ~a.res.ok
      THEN Handled(sess,
                   into_response(ApiInternal(<< "Authentication failed" >>)),
                   a.ops, a.res)
      ELSE IF ~IsSome(a.res.val)
      THEN Handled(sess,
                   into_response(ApiValidation(<< "Invalid credentials" >>)),
                   a.ops, a.res)
      ELSE IF session_fail
      THEN Handled(sess, into_response(ApiInternal(<< "Login failed" >>)),
                   a.ops, a.res)
      ELSE Handled(Some(Unwrap(a.res.val)),
                   UserResponse(200, Unwrap(a.res.val)), a.ops, a.res)
      : a \in authenticate(table, payload, fail = "find_by_email") }

-----------------------------------------------------------------------------
(* The state machine *)

VARIABLES
    users,      \* the rows of the users table
    unique,     \* whether the schema has UNIQUE constraints on subject, email
    next_uuid,  \* the next UUID Uuid::new_v4() returns
    session,    \* the user the session holds, if any
    pre,        \* the rows of the table before the last call
    call,       \* the last call and its arguments
    result,     \* what the last call returned
    ops,        \* the store operations the last call issued, in order
    procs       \* the find_or_create calls in progress, when calls overlap

vars == << users, unique, next_uuid, session, pre, call, result, ops, procs >>

\* The Email values construction can produce from the inputs.
ValidEmails == { EmailNew(e).val : e \in { x \in EmailInputs : EmailNew(x).ok } }

Call(op, subject, email, password, fail) ==
    [op |-> op, subject |-> subject, email |-> email, password |-> password,
     fail |-> fail]

\* The injected I/O failure hits an operation the call issued.
FailureHits(fail, log) ==
    fail = "none" \/ \E i \in 1..Len(log) : log[i].op = fail /\ log[i].res = "err"

\* Uuid::new_v4() after a call that drew n UUIDs starting at uuid.  UUIDs
\* are only ever compared for equality, and one that reached no row equals
\* none that is stored: it is handed out again.
NextUuid(uuid, n, table) ==
    IF \E r \in table : r.id = UuidToString(uuid) THEN uuid + n ELSE uuid

InitWith(schema_unique) ==
    /\ users = {}
    /\ unique = schema_unique
    /\ next_uuid = 1
    /\ session = None
    /\ pre = {}
    /\ call = Call("none", None, None, None, "none")
    /\ result = Ok(None)
    /\ ops = << >>
    /\ procs = << >>

\* A fresh database whose schema enforces UNIQUE(subject) and UNIQUE(email).
Init == InitWith(TRUE)

\* UserService::find_or_create(subject, email), the subject one of a set.
FindOrCreateOf(subjects) ==
    \E subject \in subjects, email \in EmailInputs, fail \in FailPoints,
       now \in Times :
        \E o \in find_or_create(users, subject, email, fail, unique,
                                next_uuid, now) :
            /\ next_uuid + o.uuids <= MaxUuid + 1
            /\ FailureHits(fail, o.ops)
            /\ users' = o.table
            /\ next_uuid' = NextUuid(next_uuid, o.uuids, o.table)
            /\ pre' = users
            /\ call' = Call("find_or_create", subject, email, None, fail)
            /\ result' = o.res
            /\ ops' = o.ops
            /\ UNCHANGED << unique, session, procs >>

\* UserService::find_or_create(subject, email)
FindOrCreate == FindOrCreateOf(Subjects)

\* POST /auth/login
Login ==
    \E email \in LoginEmails, password \in Passwords,
       fail \in { "none", "find_by_email", "session" } :
        \E h \in login(users, session, [email |-> email, password |-> password],
                       fail, fail = "session") :
            /\ fail = "session" =>
                   h.response = into_response(ApiInternal(<< "Login failed" >>))
            /\ session' = h.session
            /\ pre' = users
            /\ call' = Call("login", None, email, password, fail)
            /\ result' = [response |-> h.response, inner |-> h.inner]
            /\ ops' = h.ops
            /\ UNCHANGED << users, unique, next_uuid, procs >>

\* UserRepository::save(&User::new_local(email, hash)): a local account
\* written through the repository port.
SaveLocal ==
    \E email \in ValidEmails, password \in StoredPasswords, now \in Times,
       fail \in { "none", "save" } :
        LET user == UserNewLocal(email, generate_hash(password), next_uuid,
                                 next_uuid + 1, now)
            s    == save(users, user, fail = "save", unique)
        IN  /\ next_uuid + 2 <= MaxUuid + 1
            /\ users' = s.table
            /\ next_uuid' = NextUuid(next_uuid, 2, s.table)
            /\ pre' = users
            /\ call' = Call("save_local", user.subject, email, password, fail)
            /\ result' = s.res
            /\ ops' = << OpLog("save", << UuidToString(user.id) >>,
                               SaveTag(s.res)) >>
            /\ UNCHANGED << unique, session, procs >>

Next ==
    \/ FindOrCreate
    \/ Login
    \/ SaveLocal

Spec == Init /\ [][Next]_vars

-----------------------------------------------------------------------------
(* Vocabulary of the properties *)

IsFoc == call.op = "find_or_create"

IsLogin == call.op = "login"

HasSubject(table, subject) == \E r \in table : r.subject = subject

HasEmail(table, email) == \E r \in table : r.email = email

Ids(table) == { r.id : r \in table }

\* The trimmed, lower-cased form of an email string.
Normalised(email) == to_lowercase(trim(email))

\* The positions of the log at which the named operation was issued.
Issued(log, name) == { i \in 1..Len(log) : log[i].op = name }

\* No store operation of the last call failed.
NoStoreFailure == \A i \in 1..Len(ops) : ops[i].res # "err"

\* The last call issued a save of a user whose id the table did not hold.
IssuedCreation ==
    \E i \in Issued(ops, "save") : ops[i].key[1] \notin Ids(pre)

-----------------------------------------------------------------------------
(* C1 *)

\* C1 (as claimed): after find_or_create(s1, e) succeeded on a store with no
\* user of subject s1 or s2 and none with email e, a following
\* find_or_create(s2, e), s2 # s1, with the same string e returns the same
\* user id, and the store then holds exactly one user with that email, whose
\* subject is s2.
C1_AccountLinking ==
    [][ ( /\ IsFoc
          /\ result.ok
          /\ ~HasSubject(pre, call.subject)
          /\ ~HasEmail(pre, call.email)
          /\ ~HasEmail(pre, Normalised(call.email))
          /\ call'.op = "find_or_create"
          /\ call'.fail = "none"
          /\ call'.email = call.email
          /\ call'.subject # call.subject
          /\ ~HasSubject(pre, call'.subject) )
        => ( /\ result'.ok
             /\ result'.val.id = result.val.id
             /\ \E r \in users' :
                    /\ r.subject = call'.subject
                    /\ { x \in users' : x.email = result.val.email } = { r } )
      ]_vars

\* C1, for an email string that is already trimmed and lower-cased: the
\* second call links the account.
C1_LinkingOfNormalisedEmail ==
    [][ ( /\ IsFoc
          /\ result.ok
          /\ call.email = Normalised(call.email)
          /\ ~HasSubject(pre, call.subject)
          /\ ~HasEmail(pre, call.email)
          /\ call'.op = "find_or_create"
          /\ call'.fail = "none"
          /\ call'.email = call.email
          /\ call'.subject # call.subject
          /\ ~HasSubject(pre, call'.subject) )
        => ( /\ result'.ok
             /\ result'.val.id = result.val.id
             /\ \E r \in users' :
                    /\ r.subject = call'.subject
                    /\ { x \in users' : x.email = result.val.email } = { r } )
      ]_vars

-----------------------------------------------------------------------------
(* C2 *)

\* C2: when find_or_create(s, e) succeeded and the next call is
\* find_or_create(s, e) with the same arguments, that call returns the same
\* user id, issues no save and leaves the table as it was.
C2_Idempotent ==
    [][ ( /\ IsFoc
          /\ result.ok
          /\ call'.op = "find_or_create"
          /\ call'.fail = "none"
          /\ call'.subject = call.subject
          /\ call'.email = call.email )
        => ( /\ result'.ok
             /\ result'.val.id = result.val.id
             /\ Issued(ops', "save") = {}
             /\ users' = users )
      ]_vars

\* C2 witness: a find_or_create that succeeded without a save on a table
\* already holding the user it returned, as the repeated call does.
C2_Witness ==
    /\ IsFoc
    /\ result.ok
    /\ Issued(ops, "save") = {}
    /\ users = pre
    /\ \E r \in users : r.id = UuidToString(result.val.id)
                        /\ r.subject = call.subject
                        /\ r.email = Normalised(call.email)

-----------------------------------------------------------------------------
(* C3 *)

\* C3: when the table holds a user A with the supplied subject and another
\* user B with the supplied email, and the subject lookup does not fail,
\* find_or_create returns A as stored, issues the subject lookup and nothing
\* else (B is not looked up, nothing is saved) and leaves the table as it
\* was.  In every call the email lookup comes second, after a subject
\* lookup that found no user, and a creating save comes third, after two
\* lookups that found no user.
C3_FirstMatchWins ==
    IsFoc =>
        /\ \A a \in pre, b \in pre :
               ( /\ a.subject = call.subject
                 /\ b.email = call.email
                 /\ b.id # a.id
                 /\ call.fail # "find_by_subject" )
               => ( /\ result = UserTryFromRow(a)
                    /\ result.ok
                    /\ ops = << OpLog("find_by_subject", call.subject, "some") >>
                    /\ users = pre )
        /\ \A i \in Issued(ops, "find_by_email") :
               i = 2 /\ ops[1] = OpLog("find_by_subject", call.subject, "none")
        /\ \A i \in Issued(ops, "save") :
               ops[i].key[1] \notin Ids(pre)
               => ( /\ i = 3
                    /\ ops[1] = OpLog("find_by_subject", call.subject, "none")
                    /\ ops[2] = OpLog("find_by_email", call.email, "none") )

\* C3 witness: the call named a stored user's subject and the email of
\* another stored user, and returned.
C3_Witness ==
    /\ IsFoc
    /\ call.fail = "none"
    /\ \E a \in pre, b \in pre :
           /\ a.subject = call.subject
           /\ b.email = call.email
           /\ b.id # a.id
           /\ b.subject # a.subject
           /\ result.ok
           /\ result.val.subject = a.subject

-----------------------------------------------------------------------------
(* C4 *)

\* The three cases of a call, by what its lookups returned.
Case1 == Len(ops) >= 1 /\ ops[1].res = "some"

Case2 == Len(ops) >= 2 /\ ops[1].res = "none" /\ ops[2].res = "some"

Case3 == Len(ops) >= 2 /\ ops[1].res = "none" /\ ops[2].res = "none"

\* C4 (as claimed): a call issues no save in case 1, exactly one save in
\* case 2, exactly one save, of a new record, in case 3; never more than one
\* save and never a delete.
C4_WriteCountAsClaimed ==
    IsFoc =>
        /\ Case1 => Issued(ops, "save") = {}
        /\ Case2 => Cardinality(Issued(ops, "save")) = 1
        /\ Case3 => Cardinality(Issued(ops, "save")) = 1 /\ IssuedCreation
        /\ Cardinality(Issued(ops, "save")) <= 1
        /\ Issued(ops, "delete") = {}

\* C4 (amended): as claimed, except that case 3 issues its one save, of a
\* new record, only when the email passes validation, and no save when it
\* does not.  A save of case 2 leaves the number of records as it was; a
\* save of case 3 that succeeds adds one record.
C4_WriteCount ==
    IsFoc =>
        /\ Case1 => Issued(ops, "save") = {} /\ users = pre
        /\ Case2 => /\ Cardinality(Issued(ops, "save")) = 1
                    /\ ~IssuedCreation
                    /\ Cardinality(users) = Cardinality(pre)
        /\ (Case3 /\ EmailNew(call.email).ok)
               => /\ Cardinality(Issued(ops, "save")) = 1
                  /\ IssuedCreation
                  /\ NoStoreFailure => Cardinality(users) = Cardinality(pre) + 1
        /\ (Case3 /\ ~EmailNew(call.email).ok)
               => Issued(ops, "save") = {} /\ users = pre
        /\ Cardinality(Issued(ops, "save")) <= 1
        /\ Issued(ops, "delete") = {}

\* C4 witness: a call of case 2 has linked an account of a table that holds
\* another user too.
C4_Witness ==
    /\ IsFoc
    /\ Case2
    /\ NoStoreFailure
    /\ Cardinality(pre) = 2
    /\ users # pre

-----------------------------------------------------------------------------
(* C5 *)

-----------------------------------------------------------------------------
(* C6 *)

\* C6 (as claimed): for every subject and every email string that fails
\* validation, find_or_create (its store operations not failing) fails with
\* a ValidationError and leaves the table as it was, whatever the table
\* holds.
C6_InvalidEmailAsClaimed ==
    ( /\ IsFoc
      /\ call.fail = "none"
      /\ ~EmailNew(call.email).ok )
    => /\ ~result.ok
       /\ Unwrap(result.err).kind = "ValidationError"
       /\ users = pre

\* C6 (amended): for an email string that fails validation, find_or_create
\* leaves the table as it was in every case; it fails with the
\* ValidationError of that string when no stored user has the supplied
\* subject and the lookups do not fail, and returns the stored user of that
\* subject, without validating the email, when there is one.
C6_InvalidEmail ==
    ( /\ IsFoc
      /\ ~EmailNew(call.email).ok )
    => /\ users = pre
       /\ Issued(ops, "save") = {}
       /\ (call.fail = "none" /\ ~HasSubject(pre, call.subject))
              => result = Err(ValidationError(<< "Invalid email format: " >>
                                              \o call.email))
       /\ (call.fail = "none" /\ HasSubject(pre, call.subject))
              => /\ result.ok
                 /\ result.val.subject = call.subject

\* C6 witness: a call with an invalid email and a subject nobody has, on a
\* table that holds users, failed with a ValidationError.
C6_Witness ==
    /\ IsFoc
    /\ ~EmailNew(call.email).ok
    /\ pre # {}
    /\ ~HasSubject(pre, call.subject)
    /\ ~result.ok
    /\ Unwrap(result.err).kind = "ValidationError"

-----------------------------------------------------------------------------
(* C7 *)

\* The stored users a password opens: the rows with that email and a hash
\* the password verifies against.
Opens(table, email, password) ==
    { r \in table : /\ r.email = email
                    /\ r.password_hash = Some(generate_hash(password)) }

\* C7: the authenticate call of a login, its lookup not failing, returns a
\* user if and only if the table holds a user with exactly the candidate
\* email and a password hash the password verifies against; the user
\* returned is that stored user; the table is never changed.
C7_Authenticate ==
    IsLogin =>
        /\ users = pre
        /\ call.fail # "find_by_email" =>
               /\ result.inner.ok
               /\ IsSome(result.inner.val)
                      <=> Opens(pre, call.email, call.password) # {}
               /\ IsSome(result.inner.val) =>
                      \E r \in Opens(pre, call.email, call.password) :
                          UserTryFromRow(r) = Ok(Unwrap(result.inner.val))

\* C7 witness: authenticate returned a user of a table that also holds a
\* user without a password hash.
C7_Witness ==
    /\ IsLogin
    /\ result.inner.ok
    /\ IsSome(result.inner.val)
    /\ \E r \in users : r.password_hash = None

-----------------------------------------------------------------------------
(* C8 *)

\* Why a password login is refused, if it is.
Refusal(table, email, password) ==
    IF ~HasEmail(table, email) THEN "no user"
    ELSE IF \A r \in table : r.email = email => r.password_hash = None
         THEN "no hash"
    ELSE IF Opens(table, email, password) = {} THEN "wrong password"
    ELSE "none"

InvalidCredentials ==
    [status |-> 400, error |-> << "Validation error" >>,
     details |-> Some(<< "Invalid credentials" >>)]

\* C8: a login refused for any of the three reasons (no user with the
\* email, a user without a password hash, a password that fails
\* verification) gets one and the same response, the invalid-credentials
\* error, and so does every other login that the same table refuses, for
\* whichever reason; the session is not changed.
C8_UniformFailure ==
    ( /\ IsLogin
      /\ call.fail = "none"
      /\ Refusal(pre, call.email, call.password) # "none" )
    => /\ result.response = InvalidCredentials
       /\ \A e \in LoginEmails, p \in Passwords :
              Refusal(users, e, p) # "none" =>
                  \A h \in login(users, session,
                                 [email |-> e, password |-> p], "none", FALSE) :
                      h.response = result.response /\ h.session = session

\* C8 witness: a login was refused for a wrong password on a table that
\* refuses other logins for the two other reasons.
C8_Witness ==
    /\ IsLogin
    /\ call.fail = "none"
    /\ Refusal(pre, call.email, call.password) = "wrong password"
    /\ \E e \in LoginEmails, p \in Passwords : Refusal(users, e, p) = "no user"
    /\ \E e \in LoginEmails, p \in Passwords : Refusal(users, e, p) = "no hash"

-----------------------------------------------------------------------------
(* C9 *)

\* The save of the last call was rejected by a UNIQUE constraint.
SaveRejectedAsDuplicate ==
    /\ call.fail = "none"
    /\ \E i \in Issued(ops, "save") :
           /\ ops[i].res = "err"
           /\ \E r \in pre : r.id # ops[i].key[1]
                             /\ ( r.email = Normalised(call.email)
                                  \/ r.subject = call.subject )

\* C9 (as claimed): when the store rejects the save of a find_or_create for
\* a uniqueness constraint on email or subject, the call fails with
\* UserAlreadyExists, for which is_conflict() holds, not with a
\* RepositoryError, and the save is issued once.
C9_ConflictSurfaced ==
    ( IsFoc /\ SaveRejectedAsDuplicate )
    => /\ ~result.ok
       /\ is_conflict(Unwrap(result.err))
       /\ Unwrap(result.err).kind # "RepositoryError"
       /\ Cardinality(Issued(ops, "save")) = 1

-----------------------------------------------------------------------------
(* C10 *)

\* The error text of the store operation that failed in the last call.
FailureText == IF call.fail = "none" THEN UniqueViolation ELSE IoError

\* C10: when a store operation of a find_or_create fails, it is the last
\* operation the call issues, the call returns that failure as a
\* RepositoryError carrying the store's error text, no operation is issued
\* twice, and the table is as it was.
C10_StoreFailure ==
    IsFoc =>
        /\ \A i \in 1..Len(ops) :
               ops[i].res = "err"
               => /\ i = Len(ops)
                  /\ result = Err(RepositoryError(FailureText))
                  /\ users = pre
        /\ \A i \in 1..Len(ops), j \in 1..Len(ops) :
               ops[i].op = ops[j].op => i = j
        /\ call.fail # "none" =>
               /\ ~result.ok
               /\ ops[Len(ops)] = OpLog(call.fail, ops[Len(ops)].key, "err")

\* C10 witness: the save of a linking call failed, after two lookups that
\* succeeded.
C10_Witness ==
    /\ IsFoc
    /\ call.fail = "save"
    /\ Len(ops) = 3
    /\ ops[2].res = "some"
    /\ ops[3].res = "err"
    /\ ~result.ok

-----------------------------------------------------------------------------
(* The repository on its own: saves, deletes and lookups of any users *)

\* The ids of the users handed to the repository.
RepoIds == { 1, 2 }

\* The password hashes a user may carry.
Hashes == { None } \cup { Some(generate_hash(p)) : p \in StoredPasswords }

\* The users handed to save.
RepoUsers ==
    { UserWithId(id, subject, email, hash, created_at) :
        id \in RepoIds, subject \in Subjects, email \in ValidEmails,
        hash \in Hashes, created_at \in Times }

\* A call of a repository or service operation on a user or an id.
RepoCall(op, id, user, subject, fail) ==
    [op |-> op, id |-> id, user |-> user, subject |-> subject, fail |-> fail]

\* A fresh database, whose schema may or may not have the UNIQUE
\* constraints on subject and email.
RepoInit == \E schema_unique \in BOOLEAN : InitWith(schema_unique)

\* UserRepository::save(&user)
RepoSave ==
    \E user \in RepoUsers, fail \in BOOLEAN :
        LET s == save(users, user, fail, unique)
        IN  /\ users' = s.table
            /\ pre' = users
            /\ call' = RepoCall("save", user.id, Some(user), user.subject, fail)
            /\ result' = s.res
            /\ ops' = << OpLog("save", << UuidToString(user.id) >>,
                               SaveTag(s.res)) >>
            /\ UNCHANGED << unique, next_uuid, session, procs >>

\* UserRepository::delete(id)
RepoDelete ==
    \E id \in RepoIds, fail \in BOOLEAN :
        LET d == delete(users, id, fail)
        IN  /\ users' = d.table
            /\ pre' = users
            /\ call' = RepoCall("delete", id, None, None, fail)
            /\ result' = d.res
            /\ ops' = << OpLog("delete", << UuidToString(id) >>,
                               SaveTag(d.res)) >>
            /\ UNCHANGED << unique, next_uuid, session, procs >>

\* UserRepository::find_by_id(id)
RepoFindById ==
    \E id \in RepoIds :
        \E r \in find_by_id(users, id, FALSE) :
            /\ pre' = users
            /\ call' = RepoCall("find_by_id", id, None, None, FALSE)
            /\ result' = r
            /\ ops' = << OpLog("find_by_id", << UuidToString(id) >>,
                               FindTag(r)) >>
            /\ UNCHANGED << users, unique, next_uuid, session, procs >>

\* UserRepository::find_by_subject(subject)
RepoFindBySubject ==
    \E subject \in Subjects :
        \E r \in find_by_subject(users, subject, FALSE) :
            /\ pre' = users
            /\ call' = RepoCall("find_by_subject", 0, None, subject, FALSE)
            /\ result' = r
            /\ ops' = << OpLog("find_by_subject", subject, FindTag(r)) >>
            /\ UNCHANGED << users, unique, next_uuid, session, procs >>

\* UserService::find_by_id(id)
ServiceFindById ==
    \E id \in RepoIds, fail \in BOOLEAN :
        \E r \in UserService_find_by_id(users, id, fail) :
            /\ pre' = users
            /\ call' = RepoCall("UserService::find_by_id", id, None, None, fail)
            /\ result' = r
            /\ ops' = << OpLog("find_by_id", << UuidToString(id) >>,
                               IF fail THEN "err"
                               ELSE IF r.ok THEN "some" ELSE "none") >>
            /\ UNCHANGED << users, unique, next_uuid, session, procs >>

RepoNext ==
    \/ RepoSave
    \/ RepoDelete
    \/ RepoFindById
    \/ RepoFindBySubject
    \/ ServiceFindById

RepoSpec == RepoInit /\ [][RepoNext]_vars

\* The same, on a database whose schema has the UNIQUE constraints.
RepoSpecUnique == InitWith(TRUE) /\ [][RepoNext]_vars

-----------------------------------------------------------------------------
(* C11 *)

\* C11: UserService::find_by_id(id), its lookup not failing, returns the
\* stored user of that id when the table has a row of that id, and fails
\* with UserNotFound carrying that id when it has none; the table is as it
\* was in every case, a failed lookup included.
C11_FindById ==
    call.op = "UserService::find_by_id" =>
        /\ users = pre
        /\ (~call.fail /\ (\E r \in pre : r.id = ToString(call.id)))
               => /\ result.ok
                  /\ result.val.id = call.id
                  /\ UserToRow(result.val) \in pre
        /\ (~call.fail /\ ~(\E r \in pre : r.id = ToString(call.id)))
               => /\ ~result.ok
                  /\ Unwrap(result.err) =
                         [kind |-> "UserNotFound", msg |-> << ToString(call.id) >>]

\* C11 witness: find_by_id failed with UserNotFound for an id the table
\* does not hold, while it holds another user.
C11_Witness ==
    /\ call.op = "UserService::find_by_id"
    /\ ~call.fail
    /\ pre # {}
    /\ ~result.ok
    /\ Unwrap(result.err).kind = "UserNotFound"

-----------------------------------------------------------------------------
(* C12 *)

\* No row of the table has this id: find_by_id(id) returns no user.
Absent(table, id) == find_by_id(table, id, FALSE) = { Ok(None) }

\* C12: a delete(id) that does not fail at the store succeeds, removes
\* exactly the rows of that id (none, and the table is as it was, when the
\* id is not stored) and leaves every other row as it was; after it
\* find_by_id(id) returns no user, and a save or delete of another id keeps
\* it so.
C12_Delete ==
    [][ /\ (call'.op = "delete" /\ ~call'.fail)
               => /\ result' = Ok(None)
                  /\ users' = { r \in users : r.id # ToString(call'.id) }
                  /\ Absent(users', call'.id)
                  /\ Absent(users, call'.id) => users' = users
        /\ \A id \in RepoIds :
               ( /\ Absent(users, id)
                 /\ call'.op \in { "save", "delete" }
                 /\ call'.id # id )
               => Absent(users', id)
        /\ ( /\ call.op = "delete"
             /\ result.ok
             /\ call'.op \in { "find_by_id", "UserService::find_by_id" }
             /\ call'.id = call.id
             /\ ~call'.fail )
               => \/ result' = Ok(None)
                  \/ result' = Err(UserNotFound(call.id))
      ]_vars

\* C12 witness: a delete removed one of two stored users.
C12_Witness ==
    /\ call.op = "delete"
    /\ result.ok
    /\ Cardinality(pre) = 2
    /\ Cardinality(users) = 1
    /\ users \subseteq pre

-----------------------------------------------------------------------------
(* C13 *)

\* A lookup returned a user with the id, subject, email and password hash
\* of u.
ReturnsSame(res, u) ==
    /\ res.ok
    /\ IsSome(res.val)
    /\ Unwrap(res.val).id = u.id
    /\ Unwrap(res.val).subject = u.subject
    /\ Unwrap(res.val).email = u.email
    /\ Unwrap(res.val).password_hash = u.password_hash

\* C13: when save(u) succeeded and the next call is find_by_id(u.id) or
\* find_by_subject(u.subject), that call returns a user with the id,
\* subject, email and password hash of u (no hash when u has none).
C13_SaveFindRoundTrip ==
    [][ ( /\ call.op = "save"
          /\ result.ok
          /\ \/ call'.op = "find_by_id" /\ call'.id = call.id
             \/ call'.op = "find_by_subject" /\ call'.subject = call.subject )
        => ReturnsSame(result', Unwrap(call.user))
      ]_vars

\* C13 witness: find_by_subject returned a user with a password hash from
\* a table of two users.
C13_Witness ==
    /\ call.op = "find_by_subject"
    /\ Cardinality(users) = 2
    /\ result.ok
    /\ IsSome(result.val)
    /\ IsSome(Unwrap(result.val).password_hash)
    /\ Unwrap(result.val).subject = call.subject

-----------------------------------------------------------------------------
(* C14 *)

\* C14: in every reachable state the table has at most one row per id; a
\* save of a user whose id is stored, when it succeeds, leaves the number
\* of rows as it was, leaves the other rows as they were, and turns the row
\* of that id into one with the saved subject, email and password hash and
\* the created_at the row had.
C14_UpsertById ==
    /\ \A r1 \in users, r2 \in users : r1.id = r2.id => r1 = r2
    /\ ( /\ call.op = "save"
         /\ result.ok
         /\ \E old \in pre : old.id = ToString(call.id) )
       => LET u   == Unwrap(call.user)
              old == CHOOSE r \in pre : r.id = ToString(u.id)
          IN  /\ Cardinality(users) = Cardinality(pre)
              /\ users = (pre \ { old })
                         \cup { [id |-> old.id, subject |-> u.subject,
                                 email |-> u.email,
                                 password_hash |-> u.password_hash,
                                 created_at |-> old.created_at] }

\* C14 witness: a save replaced the subject, the email and the password
\* hash of a stored user, with a created_at other than the stored one, in a
\* table of two users.
C14_Witness ==
    /\ call.op = "save"
    /\ result.ok
    /\ Cardinality(pre) = 2
    /\ \E old \in pre :
           /\ old.id = ToString(call.id)
           /\ old.subject # Unwrap(call.user).subject
           /\ old.email # Unwrap(call.user).email
           /\ old.password_hash # Unwrap(call.user).password_hash
           /\ old.created_at # ToString(Unwrap(call.user).created_at)

-----------------------------------------------------------------------------
(* The value objects and the error mapping, applied to inputs *)

\* Longest email string tried.
MaxEmailLen == 5

\* The sequences over S of length at most n.
SeqsUpTo(S, n) == UNION { [1..k -> S] : k \in 0..n }

\* The contiguous pieces of a string.
Substrings(s) ==
    { SubSeq(s, i, j) : i \in 1..(Len(s) + 1), j \in 0..Len(s) }

\* p occurs in t (str::contains with a string pattern).
IsSubstring(p, t) ==
    \E i \in 1..(Len(t) - Len(p) + 1) : SubSeq(t, i, i + Len(p) - 1) = p

\* Strings handed to Email::new.
EmailStrings == SeqsUpTo({ "a", "A", "@", ".", " " }, MaxEmailLen)

\* Strings handed to Password::new: the pieces of a few passwords, among
\* them the text "Password(***)" and a password of two-byte characters.
PasswordStrings ==
    Substrings(<< "P", "a", "s", "s", "w", "o", "r", "d", "(", "*", "*", "*",
                  ")" >>)
    \cup Substrings(<< "s", "e", "c", "r", "e", "t", "1", "2" >>)
    \cup Substrings(<< "U+00E9", "U+00E9", "U+00E9", "1", "2", "3" >>)

\* The messages errors carry.
Messages == { << "m" >>, IoError, UniqueViolation }

\* The DomainError values.
DomainErrors ==
    { UserNotFound(id) : id \in RepoIds }
    \cup { UserAlreadyExists(m) : m \in Messages }
    \cup { ValidationError(m) : m \in Messages }
    \cup { Unauthorized(m) : m \in Messages }
    \cup { RepositoryError(m) : m \in Messages }
    \cup { InfrastructureError(m) : m \in Messages }

\* The ApiError values.
ApiErrors ==
    { ApiDomain(e) : e \in DomainErrors }
    \cup { ApiValidation(m) : m \in Messages }
    \cup { ApiInternal(m) : m \in Messages }
    \cup { ApiForbidden(m) : m \in Messages }
    \cup { ApiUnauthorized(m) : m \in Messages }

\* An input, before the function it is for is applied to it.
Input(kind, value) == [op |-> "input", kind |-> kind, value |-> value]

ValueInit ==
    /\ users = {}
    /\ unique = TRUE
    /\ next_uuid = 1
    /\ session = None
    /\ pre = {}
    /\ call \in { Input("email", v) : v \in EmailStrings }
                \cup { Input("password", v) : v \in PasswordStrings }
                \cup { Input("error", e) : e \in ApiErrors }
    /\ result = Ok(None)
    /\ ops = << >>
    /\ procs = << >>

\* Email::new(value)
EmailNewCall ==
    /\ call.op = "input"
    /\ call.kind = "email"
    /\ call' = [call EXCEPT !.op = "Email::new"]
    /\ result' = EmailNew(call.value)
    /\ UNCHANGED << users, unique, next_uuid, session, pre, ops, procs >>

\* Password::new(value)
PasswordNewCall ==
    /\ call.op = "input"
    /\ call.kind = "password"
    /\ call' = [call EXCEPT !.op = "Password::new"]
    /\ result' = PasswordNew(call.value)
    /\ UNCHANGED << users, unique, next_uuid, session, pre, ops, procs >>

\* format!("{:?}", password) of a constructed Password
PasswordDebugCall ==
    /\ call.op = "Password::new"
    /\ result.ok
    /\ call' = [call EXCEPT !.op = "Password::fmt"]
    /\ result' = [password |-> result.val, debug |-> PasswordDebug(result.val)]
    /\ UNCHANGED << users, unique, next_uuid, session, pre, ops, procs >>

\* ApiError::into_response(self)
IntoResponseCall ==
    /\ call.op = "input"
    /\ call.kind = "error"
    /\ call' = [call EXCEPT !.op = "into_response"]
    /\ result' = into_response(call.value)
    /\ UNCHANGED << users, unique, next_uuid, session, pre, ops, procs >>

ValueNext ==
    \/ EmailNewCall
    \/ PasswordNewCall
    \/ PasswordDebugCall
    \/ IntoResponseCall

ValueSpec == ValueInit /\ [][ValueNext]_vars

-----------------------------------------------------------------------------
(* C15 *)

\* The positions of c in s.
Positions(s, c) == { i \in 1..Len(s) : s[i] = c }

\* s has exactly one '@', with something before it and something after it,
\* and a '.' somewhere after it.
WellFormed(s) ==
    /\ Cardinality(Positions(s, "@")) = 1
    /\ \A i \in Positions(s, "@") :
           /\ i > 1
           /\ i < Len(s)
           /\ \E j \in Positions(s, ".") : j > i

\* C15: Email::new(v) succeeds exactly when the trimmed, lower-cased form
\* of v has one '@' between two non-empty parts and a '.' in the part after
\* it; the value it then holds is that trimmed, lower-cased string; when it
\* fails, it fails with InvalidEmail carrying v.
C15_EmailNew ==
    call.op = "Email::new" =>
        /\ result.ok <=> WellFormed(Normalised(call.value))
        /\ result.ok => result.val = Normalised(call.value)
        /\ ~result.ok =>
               Unwrap(result.err) = [kind |-> "InvalidEmail", msg |-> call.value]

\* C15 witness: Email::new accepted a string with surrounding whitespace
\* and an upper-case letter, and holds another string than it was given.
C15_Witness ==
    /\ call.op = "Email::new"
    /\ result.ok
    /\ Head(call.value) = " "
    /\ contains(call.value, "A")
    /\ result.val # call.value

-----------------------------------------------------------------------------
(* C16 *)

\* C16 (as claimed): Password::new(v) fails with PasswordTooShort for every
\* string of fewer than 6 characters and succeeds for every string of 6 or
\* more characters; every constructed Password has at least 6 characters.
C16_MinLengthAsClaimed ==
    call.op = "Password::new" =>
        /\ Len(call.value) < 6 =>
               ~result.ok /\ Unwrap(result.err).kind = "PasswordTooShort"
        /\ Len(call.value) >= 6 => result.ok
        /\ result.ok => Len(result.val) >= 6

\* What Password::new does: the 6 is a number of bytes of the UTF-8
\* encoding.  A string of fewer than 6 bytes fails with PasswordTooShort,
\* carrying 6 and its length in bytes; a string of 6 or more bytes gives a
\* Password holding it.
C16_MinLengthInBytes ==
    call.op = "Password::new" =>
        /\ str_len(call.value) < 6 =>
               /\ ~result.ok
               /\ Unwrap(result.err) =
                      [kind |-> "PasswordTooShort", min |-> 6,
                       actual |-> str_len(call.value)]
        /\ str_len(call.value) >= 6 => result = Ok(call.value)

-----------------------------------------------------------------------------
(* C17 *)

\* C17 (as claimed): the debug text of a constructed Password does not
\* contain the password.
C17_DebugHidesAsClaimed ==
    call.op = "Password::fmt" => ~IsSubstring(result.password, result.debug)

\* C17 (amended): the debug text of every constructed Password is the text
\* Password(***), whatever the password; it contains the password only when
\* the password is itself a piece of that text.
C17_DebugIsConstant ==
    call.op = "Password::fmt" =>
        LET text == << "P", "a", "s", "s", "w", "o", "r", "d", "(", "*", "*",
                       "*", ")" >>
        IN  /\ result.password = call.value
            /\ result.debug = text
            /\ result.password \notin Substrings(text)
                   => ~IsSubstring(result.password, result.debug)

\* C17 witness: the debug text of a constructed password that is no piece
\* of Password(***) was produced.
C17_Witness ==
    /\ call.op = "Password::fmt"
    /\ Len(result.password) >= 8
    /\ Head(result.password) = "s"
    /\ ~IsSubstring(result.password, result.debug)

-----------------------------------------------------------------------------
(* C18 *)

\* The status the claim gives each error.
ClaimedStatus(e) ==
    CASE e.variant = "Domain" /\ e.inner.kind = "UserNotFound"        -> 404
      [] e.variant = "Domain" /\ e.inner.kind = "UserAlreadyExists"   -> 409
      [] e.variant = "Domain" /\ e.inner.kind = "ValidationError"     -> 400
      [] e.variant = "Domain" /\ e.inner.kind = "Unauthorized"        -> 403
      [] e.variant = "Domain" /\ e.inner.kind = "RepositoryError"     -> 500
      [] e.variant = "Domain" /\ e.inner.kind = "InfrastructureError" -> 500
      [] e.variant = "Validation"                                     -> 400
      [] e.variant = "Internal"                                       -> 500
      [] e.variant = "Forbidden"                                      -> 403
      [] e.variant = "Unauthorized"                                   -> 401

\* C18: into_response gives every ApiError the status the claim lists for
\* its variant, whatever message it carries; a store failure that arrives
\* as a DomainError (a RepositoryError, the rejection of a duplicate
\* included) gives 500.
C18_StatusMapping ==
    call.op = "into_response" =>
        /\ result.status = ClaimedStatus(call.value)
        /\ ( /\ call.value.variant = "Domain"
             /\ call.value.inner \in { RepositoryError(IoError),
                                       RepositoryError(UniqueViolation) } )
               => result.status = 500

\* C18 witness: a domain Unauthorized error was mapped to 403.
C18_Witness ==
    /\ call.op = "into_response"
    /\ call.value.variant = "Domain"
    /\ call.value.inner.kind = "Unauthorized"
    /\ result.status = 403

-----------------------------------------------------------------------------
(* Two find_or_create calls in progress at once *)

\* The two calls.  Each await of find_or_create is one store operation;
\* between two awaits of one call the other call may run.
Procs == { 1, 2 }

\* The emails the two calls are made with.
RaceEmails == { << "a", "@", "b", ".", "c" >>, << "b", "@", "b", ".", "c" >> }

\* The user the table may hold before the calls: created by an earlier
\* find_or_create under another subject.
Existing == UserNew(<< "s", "0" >>, << "a", "@", "b", ".", "c" >>, 1, 10)

\* A call of find_or_create(subject, email) that has not started: the await
\* it is at, the user its email lookup returned, the path it took and what
\* it returned.
Proc(subject, email) ==
    [pc |-> "find_by_subject", subject |-> subject, email |-> email,
     found |-> None, path |-> "none", res |-> Ok(None)]

\* A store operation in the order the store applied it, with the call that
\* issued it.
RaceLog(p, name, key, res) == [proc |-> p, op |-> name, key |-> key, res |-> res]

\* The call returns.
Return(proc, path, res) == [proc EXCEPT !.pc = "done", !.path = path, !.res = res]

RaceInit ==
    /\ unique \in BOOLEAN
    /\ users \in { {}, { UserToRow(Existing) } }
    /\ next_uuid = IF users = {} THEN 1 ELSE 2
    /\ session = None
    /\ pre = users
    /\ call = Call("none", None, None, None, "none")
    /\ result = Ok(None)
    /\ ops = << >>
    /\ procs \in [Procs -> { Proc(subject, email) :
                                subject \in Subjects, email \in RaceEmails }]

\* Step 1 of call p: find_by_subject(subject).await?
FindBySubjectStep(p) ==
    /\ procs[p].pc = "find_by_subject"
    /\ \E r \in find_by_subject(users, procs[p].subject, FALSE) :
           /\ procs' = [procs EXCEPT ![p] =
                  IF ~r.ok THEN Return(@, "failed", r)
                  ELSE IF IsSome(r.val)
                       THEN Return(@, "by_subject", Ok(Unwrap(r.val)))
                       ELSE [@ EXCEPT !.pc = "find_by_email"]]
           /\ ops' = Append(ops, RaceLog(p, "find_by_subject",
                                         procs[p].subject, FindTag(r)))
    /\ UNCHANGED << users, unique, next_uuid, session, pre, call, result >>

\* Step 2 of call p, the lookup: find_by_email(email).await?
FindByEmailStep(p) ==
    /\ procs[p].pc = "find_by_email"
    /\ \E r \in find_by_email(users, procs[p].email, FALSE) :
           /\ procs' = [procs EXCEPT ![p] =
                  IF ~r.ok THEN Return(@, "failed", r)
                  ELSE IF IsSome(r.val)
                       THEN IF Unwrap(r.val).subject # procs[p].subject
                            THEN [@ EXCEPT !.pc = "link", !.found = r.val]
                            ELSE Return(@, "by_email", Ok(Unwrap(r.val)))
                       ELSE [@ EXCEPT !.pc = "create"]]
           /\ ops' = Append(ops, RaceLog(p, "find_by_email", procs[p].email,
                                         FindTag(r)))
    /\ UNCHANGED << users, unique, next_uuid, session, pre, call, result >>

\* Step 2 of call p, the update: user.subject = subject; save(&user).await?
LinkStep(p) ==
    /\ procs[p].pc = "link"
    /\ LET o == FocLink(users, Unwrap(procs[p].found), procs[p].subject,
                        "none", unique)
       IN  /\ users' = o.table
           /\ procs' = [procs EXCEPT ![p] = Return(@, "link", o.res)]
           /\ ops' = Append(ops, RaceLog(p, "save", o.ops[1].key, o.ops[1].res))
    /\ UNCHANGED << unique, next_uuid, session, pre, call, result >>

\* Step 3 of call p: Email::try_from, User::new, save(&user).await?
CreateStep(p) ==
    /\ procs[p].pc = "create"
    /\ \E now \in Times :
           LET o == FocCreate(users, procs[p].subject, procs[p].email, "none",
                              unique, next_uuid, now)
           IN  /\ users' = o.table
               /\ next_uuid' = next_uuid + o.uuids
               /\ procs' = [procs EXCEPT ![p] = Return(@, "create", o.res)]
               /\ ops' = ops \o [i \in 1..Len(o.ops) |->
                                    RaceLog(p, "save", o.ops[i].key, o.ops[i].res)]
    /\ UNCHANGED << unique, session, pre, call, result >>

RaceFindBySubject == \E p \in Procs : FindBySubjectStep(p)

RaceFindByEmail == \E p \in Procs : FindByEmailStep(p)

RaceLink == \E p \in Procs : LinkStep(p)

RaceCreate == \E p \in Procs : CreateStep(p)

RaceNext ==
    \/ RaceFindBySubject
    \/ RaceFindByEmail
    \/ RaceLink
    \/ RaceCreate

RaceSpec == RaceInit /\ [][RaceNext]_vars

-----------------------------------------------------------------------------
(* C19 *)

\* Every call has returned.
AllDone == \A p \in Procs : procs[p].pc = "done"

\* The store operations call p issued, in order.
OpsOf(p) == SelectSeq(ops, LAMBDA o : o.proc = p)

\* The two calls have the same email, which no stored user has, and
\* different subjects, which no stored user has.
NewEmailRace ==
    /\ procs[1].email = procs[2].email
    /\ procs[1].subject # procs[2].subject
    /\ ~HasEmail(pre, procs[1].email)
    /\ \A p \in Procs : ~HasSubject(pre, procs[p].subject)

\* Both calls got no user from both lookups and went on to create one.
BothCreate == \A p \in Procs : procs[p].path = "create"

\* C19: when two calls with the same new email and different new subjects
\* both got no match from both lookups, each issues one creating save, for
\* users of different ids and that same email.  On a store without a
\* uniqueness constraint both saves succeed and the table holds two users
\* with that email; with the constraint the second save is rejected.
C19_CreationRace ==
    (NewEmailRace /\ BothCreate) =>
        /\ \A p \in Procs :
               /\ Len(OpsOf(p)) = 3
               /\ OpsOf(p)[1].op = "find_by_subject" /\ OpsOf(p)[1].res = "none"
               /\ OpsOf(p)[2].op = "find_by_email" /\ OpsOf(p)[2].res = "none"
               /\ OpsOf(p)[3].op = "save"
        /\ OpsOf(1)[3].key # OpsOf(2)[3].key
        /\ ~unique =>
               /\ \A p \in Procs :
                      /\ procs[p].res.ok
                      /\ procs[p].res.val.email = procs[p].email
                      /\ procs[p].res.val.subject = procs[p].subject
               /\ procs[1].res.val.id # procs[2].res.val.id
               /\ Cardinality({ r \in users : r.email = procs[1].email }) = 2
               /\ Cardinality(users) = Cardinality(pre) + 2
        /\ unique =>
               /\ Cardinality({ p \in Procs : procs[p].res.ok }) = 1
               /\ \E p \in Procs :
                      procs[p].res = Err(RepositoryError(UniqueViolation))
               /\ Cardinality({ r \in users : r.email = procs[1].email }) = 1

\* C19 witness: the two calls overlapped (each made both lookups before
\* either saved), both saves succeeded on a store without the constraint,
\* and the table holds two users with the one email.
C19_Witness ==
    /\ NewEmailRace
    /\ BothCreate
    /\ ~unique
    /\ Len(ops) = 6
    /\ ops[5].op = "save" /\ ops[6].op = "save"
    /\ \A i \in 1..4 : ops[i].res = "none"
    /\ \E r1 \in users, r2 \in users :
           r1.id # r2.id /\ r1.email = r2.email /\ r1.subject # r2.subject

-----------------------------------------------------------------------------
(* C20 *)

\* The next await of call p.
Step(p) ==
    \/ FindBySubjectStep(p)
    \/ FindByEmailStep(p)
    \/ LinkStep(p)
    \/ CreateStep(p)

\* The two calls have the email of the one stored user and two different
\* subjects, neither of them the stored one.
LinkRace ==
    /\ pre = { UserToRow(Existing) }
    /\ \A p \in Procs : procs[p].email = Existing.email
    /\ procs[1].subject # procs[2].subject
    /\ \A p \in Procs : procs[p].subject # Existing.subject

\* The position in ops of the save the store applied last.
LastSave == CHOOSE i \in Issued(ops, "save") : \A j \in Issued(ops, "save") : j <= i

\* C20: two calls with the email of the one stored user and two different
\* new subjects each return that user's id, in every interleaving.  Once
\* both have returned, the table holds exactly one row, of that id: the
\* stored row with its subject replaced by the subject of the call whose
\* save the store applied last.  A call that has not returned can always
\* take its next step, whatever the other call is doing.
C20_LastWriteWins ==
    LinkRace =>
        /\ \A p \in Procs :
               procs[p].pc = "done"
               => /\ procs[p].res.ok
                  /\ procs[p].res.val.id = Existing.id
                  /\ procs[p].res.val.subject = procs[p].subject
        /\ AllDone =>
               /\ Cardinality(Issued(ops, "save")) = 2
               /\ \A i \in Issued(ops, "save") : ops[i].res = "ok"
               /\ users = { [UserToRow(Existing) EXCEPT
                                !.subject = procs[ops[LastSave].proc].subject] }
        /\ \A p \in Procs : procs[p].pc # "done" => ENABLED Step(p)

\* C20 witness: the call that saved last had read the user before the
\* other call saved, and overwrote the other call's subject.
C20_Witness ==
    /\ LinkRace
    /\ AllDone
    /\ \E i \in 1..Len(ops), j \in 1..Len(ops), k \in 1..Len(ops) :
           /\ i < j /\ j < k
           /\ ops[i].op = "find_by_email"
           /\ ops[j].op = "save"
           /\ ops[k].op = "save"
           /\ ops[i].proc = ops[k].proc
           /\ ops[j].proc # ops[k].proc
           /\ \E r \in users : r.subject = procs[ops[k].proc].subject

-----------------------------------------------------------------------------
(* routes/auth.rs: register, logout, me *)

\* UserService::find_by_email: the repository's lookup, passed through.
UserService_find_by_email(table, email, fail) ==
    find_by_email(table, email, fail)

\* What a handler that may write did: the table it left, the UUIDs it drew,
\* the session's user afterwards, the response, the store operations
\* issued, and what its last call to the service returned.
HandledWrite(table, uuids, sess, response, log, inner) ==
    [table |-> table, uuids |-> uuids, session |-> sess,
     response |-> response, ops |-> log, inner |-> inner]

\* The store operations of register that may fail with an I/O error: its
\* own lookup ("lookup") and those of find_or_create.
RegisterFailPoints ==
    { "none", "lookup", "find_by_subject", "find_by_email", "save", "session" }

\* register: look the submitted email up, answer 409 when a user has it;
\* validate the email; find_or_create with the validated email as subject
\* and as email; auth_session.login; 201 with the summary.  The password
\* of the payload is not used.
register(table, sess, payload, fail, schema_unique, uuid, now) ==
    UNION
    { LET log == << OpLog("find_by_email", payload.email, FindTag(r)) >>
          e   == EmailNew(payload.email)
      IN  IF ~r.ok
          THEN { HandledWrite(table, 0, sess,
                     into_response(ApiDomain(Unwrap(r.err))), log, r) }
          ELSE IF IsSome(r.val)
          THEN { HandledWrite(table, 0, sess,
                     into_response(ApiDomain(
                         UserAlreadyExists(payload.email))),
                     log, Err(UserAlreadyExists(payload.email))) }
          ELSE IF ~e.ok
          THEN { HandledWrite(table, 0, sess,
                     into_response(ApiValidation(
                         << "Invalid email format: " >> \o Unwrap(e.err).msg)),
                     log, e) }
          ELSE { IF ~o.res.ok
                 THEN HandledWrite(o.table, o.uuids, sess,
                          into_response(ApiDomain(Unwrap(o.res.err))),
                          log \o o.ops, o.res)
                 ELSE IF fail = "session"
                 THEN HandledWrite(o.table, o.uuids, sess,
                          into_response(ApiInternal(<< "Login failed" >>)),
                          log \o o.ops, o.res)
                 ELSE HandledWrite(o.table, o.uuids, Some(o.res.val),
                          UserResponse(201, o.res.val), log \o o.ops, o.res)
                 : o \in find_or_create(table, e.val, e.val, fail,
                                        schema_unique, uuid, now) }
      : r \in UserService_find_by_email(table, payload.email,
                                        fail = "lookup") }

\* logout that leaves the session as it was.
logout_KeepsSession(sess, session_fail) ==
    IF session_fail
    THEN { Handled(s, [status |-> 500], << >>, Err(None)) : s \in { sess, None } }
    ELSE { Handled(sess, [status |-> 200], << >>, Ok(None)) }

\* logout: auth_session.logout(); 200, or 500 when the session store fails,
\* and then the session may or may not have been cleared.
logout(sess, session_fail) ==
    IF session_fail
    THEN { Handled(s, [status |-> 500], << >>, Err(None)) : s \in { sess, None } }
    ELSE { Handled(None, [status |-> 200], << >>, Ok(None)) }

\* me: the summary of the session's user, or Unauthorized.
me(sess) ==
    IF IsSome(sess)
    THEN Handled(sess, UserResponse(200, Unwrap(sess)), << >>, Ok(None))
    ELSE Handled(sess, into_response(ApiUnauthorized(<< "Not logged in" >>)),
                 << >>, Ok(None))

-----------------------------------------------------------------------------
(* The HTTP surface as a state machine *)

\* POST /auth/register
Register ==
    \E email \in EmailInputs, password \in Passwords,
       fail \in RegisterFailPoints, now \in Times :
        \E h \in register(users, session,
                          [email |-> email, password |-> password],
                          fail, unique, next_uuid, now) :
            /\ next_uuid + h.uuids <= MaxUuid + 1
            /\ fail = "lookup" => h.ops[1].res = "err"
            /\ fail \in FailPoints => FailureHits(fail, Tail(h.ops))
            /\ fail = "session" =>
                   h.response = into_response(ApiInternal(<< "Login failed" >>))
            /\ users' = h.table
            /\ next_uuid' = NextUuid(next_uuid, h.uuids, h.table)
            /\ session' = h.session
            /\ pre' = users
            /\ call' = Call("register", None, email, password, fail)
            /\ result' = [response |-> h.response, inner |-> h.inner]
            /\ ops' = h.ops
            /\ UNCHANGED << unique, procs >>

\* POST /auth/logout
Logout ==
    \E fail \in { "none", "session" } :
        \E h \in logout(session, fail = "session") :
            /\ session' = h.session
            /\ pre' = users
            /\ call' = Call("logout", None, None, None, fail)
            /\ result' = [response |-> h.response, inner |-> h.inner]
            /\ ops' = h.ops
            /\ UNCHANGED << users, unique, next_uuid, procs >>

\* POST /auth/me
Me ==
    LET h == me(session)
    IN  /\ session' = h.session
        /\ pre' = users
        /\ call' = Call("me", None, None, None, "none")
        /\ result' = [response |-> h.response, inner |-> h.inner]
        /\ ops' = h.ops
        /\ UNCHANGED << users, unique, next_uuid, procs >>

\* The four routes, over a store in which local accounts with a password
\* are written as well.
ApiNext ==
    \/ Register
    \/ Login
    \/ Logout
    \/ Me
    \/ SaveLocal

ApiSpec == RepoInit /\ [][ApiNext]_vars

IsRegister == call.op = "register"

IsMe == call.op = "me"

IsLogout == call.op = "logout"

-----------------------------------------------------------------------------
(* C21 *)

\* C21: register never acts on an account that existed before the request:
\* whenever the trimmed, lower-cased form of the submitted email string is
\* the stored email of a user, and no store operation fails, register
\* answers 409 with UserAlreadyExists, leaves every stored user as it was,
\* and does not put a user with that email into the session.
C21_RegisterRefusesExisting ==
    [][ ( /\ call'.op = "register"
          /\ call'.fail = "none"
          /\ HasEmail(users, Normalised(call'.email)) )
        => /\ result'.response.status = 409
           /\ result'.inner = Err(UserAlreadyExists(call'.email))
           /\ users' = users
           /\ ~ ( /\ IsSome(session')
                  /\ session' # session
                  /\ \E r \in users :
                         /\ r.email = Normalised(call'.email)
                         /\ r.id = UuidToString(Unwrap(session').id) ) ]_vars

-----------------------------------------------------------------------------
(* C22 *)

\* The store filled by register alone; login reads it.
RegisterNext ==
    \/ Register
    \/ Login

RegisterSpec == RepoInit /\ [][RegisterNext]_vars

\* C22: register ignores the submitted password.  In every state reached by
\* register calls alone every stored user has no password hash and its
\* email as its subject, the user a 201 answer names is stored under the
\* validated email; authenticate returns no user for every email and
\* password, and a login whose lookup does not fail gets the
\* invalid-credentials answer.
C22_RegisterIgnoresPassword ==
    /\ \A r \in users : r.password_hash = None /\ r.subject = r.email
    /\ (IsRegister /\ result.response.status = 201)
       => \E r \in users :
              /\ r.id = UuidToString(result.response.id)
              /\ r.email = Normalised(call.email)
              /\ r.subject = Normalised(call.email)
              /\ r.password_hash = None
    /\ \A email \in EmailInputs \cup LoginEmails, password \in Passwords :
           \A a \in authenticate(users,
                                 [email |-> email, password |-> password],
                                 FALSE) :
               a.res = Ok(None)
    /\ (IsLogin /\ call.fail = "none")
       => result.response
              = into_response(ApiValidation(<< "Invalid credentials" >>))

\* C22 witness: a login with the email of a registered user and one of the
\* passwords register accepts was answered with invalid credentials.
C22_Witness ==
    /\ IsLogin
    /\ call.fail = "none"
    /\ HasEmail(users, call.email)
    /\ result.response.status = 400
    /\ result.inner = Ok(None)

-----------------------------------------------------------------------------
(* C23 *)

\* The subjects of three identities.
FocSubjects == Subjects \cup { << "s", "3" >> }

\* Calls of find_or_create one after another, none overlapping another.
FocNext == FindOrCreateOf(FocSubjects)

\* The resolver alone over a fresh store, with or without the schema's
\* UNIQUE constraints.
FocSpec == RepoInit /\ [][FocNext]_vars

\* C23: when the store enforces no uniqueness constraint on email, after
\* any sequence of non-overlapping find_or_create calls from an empty store
\* no two stored users have the same stored email.
C23_EmailUnique ==
    ~unique => \A r1, r2 \in users : r1.email = r2.email => r1 = r2

-----------------------------------------------------------------------------
(* C24 *)

\* C24: after any sequence of non-overlapping find_or_create calls from an
\* empty store, whether or not the schema has UNIQUE constraints, no two
\* stored users have the same subject, and right after a successful
\* find_or_create(subject, email) the stored users with that subject are
\* exactly one, the user whose id the call returned.
C24_SubjectUnique ==
    /\ \A r1, r2 \in users : r1.subject = r2.subject => r1 = r2
    /\ (IsFoc /\ result.ok)
       => \E r \in users :
              /\ r.id = UuidToString(result.val.id)
              /\ { x \in users : x.subject = call.subject } = { r }

\* C24 witness: a call linked its subject to a user stored under another
\* subject, in a table of several users, on a store without constraints.
C24_Witness ==
    /\ IsFoc
    /\ result.ok
    /\ ~unique
    /\ Case2
    /\ Cardinality(users) >= 2
    /\ \E r \in pre : r.id = UuidToString(result.val.id)
                      /\ r.subject # call.subject

-----------------------------------------------------------------------------
(* C25 *)

\* C25: when find_or_create links an existing user (none found by subject,
\* one found by email, the save succeeds), the table afterwards is the table
\* before with that one row's subject replaced by the supplied subject: the
\* row keeps its id, email, password hash and created_at, every other row
\* is unchanged, the number of rows is the same, and the call returns the
\* user as now stored.
C25_LinkChangesSubjectOnly ==
    (IsFoc /\ result.ok /\ Case2)
    => \E old \in pre :
           LET linked == [old EXCEPT !.subject = call.subject]
           IN  /\ old.email = call.email
               /\ old.subject # call.subject
               /\ users = (pre \ { old }) \cup { linked }
               /\ Cardinality(users) = Cardinality(pre)
               /\ linked.id = old.id
               /\ linked.password_hash = old.password_hash
               /\ linked.created_at = old.created_at
               /\ result = UserTryFromRow(linked)

\* C25 witness: a local account with a password hash was linked to a
\* federated subject, in a table that holds another user as well.
C25_Witness ==
    /\ IsFoc
    /\ result.ok
    /\ Case2
    /\ Cardinality(pre) >= 2
    /\ IsSome(result.val.password_hash)
    /\ \E r \in users : r.subject = call.subject /\ IsSome(r.password_hash)

-----------------------------------------------------------------------------
(* C26 *)

\* C26: no HTTP 500 response exposes the underlying failure text: for every
\* ApiError that maps to status 500, a DomainError::RepositoryError
\* included, the body carries the error text "Internal server error" and
\* no details.
C26_No500ExposesFailure ==
    (call.op = "into_response" /\ result.status = 500)
    => /\ result.error = << "Internal server error" >>
       /\ result.details = None

\* What holds: the body of a 500 response is the fixed text exactly for
\* ApiError::Internal; for a DomainError it is the error's Display text,
\* which ends with the message the error carries.
C26_Only500OfInternalIsFixed ==
    (call.op = "into_response" /\ result.status = 500)
    => /\ result.details = None
       /\ IF call.value.variant = "Internal"
          THEN result.error = << "Internal server error" >>
          ELSE /\ call.value.variant = "Domain"
               /\ call.value.inner.kind
                      \in { "RepositoryError", "InfrastructureError" }
               /\ result.error = DomainErrorToString(call.value.inner)
               /\ IsSubstring(call.value.inner.msg, result.error)

-----------------------------------------------------------------------------
(* C27 *)

\* C27: session ordering.  me answers with the summary of the session's
\* user when the session holds one and with 401 Unauthorized otherwise,
\* and leaves the session as it is; a login or register that answers 200
\* or 201 leaves in the session the user whose id it returned, and one that
\* fails leaves the session as it was; a logout that answers 200 leaves the
\* session empty; nothing else changes the session, so what me answers is
\* decided by the last successful login, register or logout.  logout and
\* me issue no store operation and do not change the users table.
C27_SessionOrdering ==
    [][ /\ call'.op = "me"
           => /\ session' = session
              /\ users' = users
              /\ ops' = << >>
              /\ IF IsSome(session)
                 THEN result'.response = UserResponse(200, Unwrap(session))
                 ELSE result'.response
                          = ErrorResponse(401, << "Unauthorized" >>,
                                          Some(<< "Not logged in" >>))
        /\ call'.op = "logout"
           => /\ users' = users
              /\ ops' = << >>
              /\ result'.response.status = 200 => session' = None
        /\ call'.op \in { "login", "register" }
           => IF result'.response.status \in { 200, 201 }
              THEN /\ IsSome(session')
                   /\ Unwrap(session').id = result'.response.id
              ELSE session' = session
        /\ call'.op \notin { "me", "logout", "login", "register" }
           => session' = session ]_vars

\* C27 witness: me answered with the summary of the session's user, a
\* local account logged in with its password, while other users are stored.
C27_Witness ==
    /\ IsMe
    /\ IsSome(session)
    /\ result.response.status = 200
    /\ result.response.id = Unwrap(session).id
    /\ IsSome(Unwrap(session).password_hash)
    /\ Cardinality(users) >= 2

\* C27 witness of the other case: me answered 401 on an empty session
\* while users are stored.
C27_WitnessUnauthorized ==
    /\ IsMe
    /\ session = None
    /\ result.response.status = 401
    /\ users # {}

=============================================================================
